---- MODULE Spec2Model ----
(***************************************************************************)
(* Incremental ingestion scheduler of stonxx: the bar store and run ledger *)
(* (database.py), the catch-up orchestrator (ingest_catchup.py), the       *)
(* backfill script (fetch_30min_last8weeks.py) and the realtime loop and   *)
(* launcher of app.py.                                                     *)
(***************************************************************************)
EXTENDS Integers, Sequences, FiniteSets, TLC

VARIABLES
    bars,          \* rows of table bars: [symbol, timeframe, timestamp, val]
    ingest_runs,   \* rows of table ingest_runs, indexed by id (AUTOINCREMENT)
    now,           \* wall clock, unix seconds
    procs,         \* child processes (ingest_catchup.py / fetch_30min_last8weeks.py)
    rt_stop,       \* app._rt_stop (threading.Event)
    rt_thread,     \* app._rt_thread: 0 is None, else index into threads
    threads,       \* realtime loop threads ever created
    starters,      \* in-flight start_realtime_ingest calls
    call,          \* last direct call of the store API and what it returned
    win,           \* last direct call of compute_catchup_window and its result
    hist           \* history: facts about past steps that the properties read

vars == <<bars, ingest_runs, now, procs, rt_stop, rt_thread, threads,
          starters, call, win, hist>>

\* Optional values: None is the empty tuple, a present value x is <<x>>
None == <<>>

Some(x) == <<x>>

IsSome(o) == o # <<>>

The(o) == o[1]

----------------------------------------------------------------------------
(* Domains                                                                  *)

Symbols == {1, 2}
TFs == {"1Min", "5Min", "30Min"}
Vals == {1, 2}

\* longest batch handed to insert_bars_batch / longest provider response
MaxBatch == 2

Max(a, b) == IF a >= b THEN a ELSE b
Min(a, b) == IF a <= b THEN a ELSE b

SetMax(S) == CHOOSE x \in S : \A y \in S : y <= x
SetMin(S) == CHOOSE x \in S : \A y \in S : x <= y

Bar(s, tf, ts, v) == [symbol |-> s, timeframe |-> tf, timestamp |-> ts, val |-> v]

\* the constraint declared as UNIQUE(symbol, timestamp), without the timeframe
SameKeyAnyTimeframe(a, b) ==
    /\ a.symbol = b.symbol
    /\ a.timestamp = b.timestamp

SameKey(a, b) ==
    /\ a.symbol = b.symbol
    /\ a.timeframe = b.timeframe
    /\ a.timestamp = b.timestamp

SeqsUpTo(S, n) == UNION {[1..k -> S] : k \in 0..n}

----------------------------------------------------------------------------
(* Bar store: database.py                                                   *)

\* INSERT OR REPLACE: what the statement would do without the IGNORE clause
InsertOrReplace(store, row) ==
    [store |-> {b \in store : ~SameKey(b, row)} \cup {row}, rowcount |-> 1]

\* INSERT OR IGNORE INTO bars under UNIQUE(symbol, timeframe, timestamp)
InsertOrIgnore(store, row) ==
    IF \E b \in store : SameKey(b, row)
    THEN [store |-> store, rowcount |-> 0]
    ELSE [store |-> store \cup {row}, rowcount |-> 1]

\* cursor.executemany: the statement applied to each row in order,
\* rowcount the sum of the rows modified
RECURSIVE executemany(_, _)
executemany(store, rows) ==
    IF rows = <<>>
    THEN [store |-> store, rowcount |-> 0]
    ELSE LET one == InsertOrIgnore(store, Head(rows))
             rest == executemany(one.store, Tail(rows))
         IN [store |-> rest.store, rowcount |-> one.rowcount + rest.rowcount]

\* the batch reporting len(bars) in place of cursor.rowcount
insert_bars_batch_len(store, rows, ok) ==
    IF ok THEN [store |-> executemany(store, rows).store, ret |-> Len(rows)]
    ELSE [store |-> store, ret |-> 0]

\* insert_bars_batch: ok = FALSE is the except branch (rollback, return 0)
insert_bars_batch(store, rows, ok) ==
    IF ok THEN LET r == executemany(store, rows)
               IN [store |-> r.store, ret |-> r.rowcount]
    ELSE [store |-> store, ret |-> 0]

\* insert_bar: returns cursor.rowcount > 0, or False from the except branch
insert_bar(store, row, ok) ==
    IF ok THEN LET r == InsertOrIgnore(store, row)
               IN [store |-> r.store, ret |-> r.rowcount > 0]
    ELSE [store |-> store, ret |-> FALSE]

\* get_symbols_with_data: SELECT DISTINCT symbol ... ORDER BY symbol
SymbolSet(store, tf) == {b.symbol : b \in {x \in store : x.timeframe = tf}}

RECURSIVE SortedSeq(_)
SortedSeq(S) ==
    IF S = {} THEN <<>>
    ELSE LET m == SetMin(S) IN <<m>> \o SortedSeq(S \ {m})

get_symbols_with_data(store, tf) == SortedSeq(SymbolSet(store, tf))

Range(f) == {f[i] : i \in DOMAIN f}

----------------------------------------------------------------------------
(* Run ledger: database.py                                                  *)

\* the ledger keyed by (timeframe, mode) instead of a fresh id: an existing
\* row of the pair is overwritten by the new run
create_ingest_run_upsert(runs, timeframe, mode, window_start, window_end, pid) ==
    LET fresh == [timeframe |-> timeframe, mode |-> mode, status |-> "running",
                  ended_at |-> None, window_start |-> window_start,
                  window_end |-> window_end, inserted_rows |-> 0, pid |-> pid]
    IN IF \E i \in DOMAIN runs : runs[i].timeframe = timeframe /\ runs[i].mode = mode
       THEN [i \in DOMAIN runs |->
                IF runs[i].timeframe = timeframe /\ runs[i].mode = mode
                THEN fresh ELSE runs[i]]
       ELSE Append(runs, fresh)

\* create_ingest_run: INSERT ... VALUES (?, ?, 'running', ...); lastrowid
create_ingest_run(runs, timeframe, mode, window_start, window_end, pid) ==
    Append(runs, [timeframe |-> timeframe, mode |-> mode, status |-> "running",
                  ended_at |-> None, window_start |-> window_start,
                  window_end |-> window_end, inserted_rows |-> 0, pid |-> pid])

\* the increment update stamping ended_at as a "last activity" time
AddInsertedRowsStamped(runs, run_id, inc) ==
    [i \in DOMAIN runs |->
        IF i = run_id
        THEN [runs[i] EXCEPT !.inserted_rows = runs[i].inserted_rows + inc,
                             !.ended_at = Some(0)]
        ELSE runs[i]]

\* UPDATE ingest_runs SET inserted_rows = inserted_rows + ? WHERE id = ?
AddInsertedRows(runs, run_id, inc) ==
    [i \in DOMAIN runs |->
        IF i = run_id
        THEN [runs[i] EXCEPT !.inserted_rows = runs[i].inserted_rows + inc]
        ELSE runs[i]]

\* REPLACE INTO instead of UPDATE: the columns not named fall back to their
\* defaults, inserted_rows to 0
SetStatusReplace(runs, run_id, status, ended_at_now, t) ==
    [i \in DOMAIN runs |->
        IF i = run_id
        THEN [runs[i] EXCEPT !.status = status, !.inserted_rows = 0,
                             !.ended_at = IF ended_at_now THEN Some(t) ELSE None]
        ELSE runs[i]]

\* UPDATE ingest_runs SET status = ? [, ended_at = now] WHERE id = ?
SetStatus(runs, run_id, status, ended_at_now, t) ==
    [i \in DOMAIN runs |->
        IF i = run_id
        THEN IF ended_at_now /\ status \in {"finished", "error"}
             THEN [runs[i] EXCEPT !.status = status, !.ended_at = Some(t)]
             ELSE [runs[i] EXCEPT !.status = status]
        ELSE runs[i]]

\* update_ingest_run without the statement that adds to inserted_rows
update_ingest_run_status_only(runs, run_id, status, inc, ended_at_now, t) ==
    IF IsSome(status) THEN SetStatus(runs, run_id, The(status), ended_at_now, t)
    ELSE runs

\* update_ingest_run(run_id, status, inserted_rows_increment, ended_at_now);
\* an increment of None or 0 is falsy and skipped
update_ingest_run(runs, run_id, status, inc, ended_at_now, t) ==
    LET r1 == IF IsSome(inc) /\ The(inc) # 0
              THEN AddInsertedRows(runs, run_id, The(inc))
              ELSE runs
    IN IF IsSome(status) THEN SetStatus(r1, run_id, The(status), ended_at_now, t)
       ELSE r1

\* has_running_ingest: a None filter adds no condition
has_running_ingest(runs, timeframe, mode) ==
    \E i \in DOMAIN runs :
        /\ runs[i].status = "running"
        /\ (IsSome(timeframe) => runs[i].timeframe = The(timeframe))
        /\ (IsSome(mode) => runs[i].mode = The(mode))

\* the WHERE timeframe = ? clause left out
LatestOfAnyTimeframe(store, tf, s) ==
    SetMax({b.timestamp : b \in {x \in store : x.symbol = s}})

\* SELECT symbol, MAX(timestamp) FROM bars WHERE timeframe = ? GROUP BY symbol
LatestOf(store, tf, s) ==
    SetMax({b.timestamp : b \in {x \in store : x.timeframe = tf /\ x.symbol = s}})

\* get_timeframe_freshness: MIN over the symbols that have a bar of the
\* timeframe of their MAX(timestamp); None when no row or when the value is 0
get_timeframe_freshness(store, tf) ==
    LET syms == SymbolSet(store, tf)
    IN IF syms = {} THEN None
       ELSE LET m == SetMin({LatestOf(store, tf, s) : s \in syms})
            IN IF m # 0 THEN Some(m) ELSE None

----------------------------------------------------------------------------
(* Catch-up window: ingest_catchup.py                                       *)

\* overlap buffers, seconds
buffers(tf) ==
    CASE tf = "1Min" -> 15 * 60
      [] tf = "5Min" -> 60 * 60
      [] tf = "30Min" -> 6 * 60 * 60

\* fallback horizons, seconds
fallbacks(tf) ==
    CASE tf = "1Min" -> 3 * 86400
      [] tf = "5Min" -> 14 * 86400
      [] tf = "30Min" -> 56 * 86400

\* get_latest_by_symbol: the requested symbols that have a bar of the timeframe
LatestKeys(store, tf, symbols) == Range(symbols) \cap SymbolSet(store, tf)

get_latest_by_symbol(store, tf, symbols) ==
    [s \in LatestKeys(store, tf, symbols) |-> LatestOf(store, tf, s)]

\* the latest of the freshest symbol taken instead of the stalest
compute_catchup_window_max(store, t, tf, symbols) ==
    LET latest_map == get_latest_by_symbol(store, tf, symbols)
        n == Cardinality(DOMAIN latest_map)
        min_latest == IF n > 0 THEN SetMax(Range(latest_map))
                      ELSE t - buffers(tf)
        start == IF n < Len(symbols)
                 THEN t - fallbacks(tf)
                 ELSE Max(0, min_latest) - buffers(tf)
    IN [start |-> Min(start, t - 1), end |-> t]

\* the fallback taken only when no symbol at all has a bar of the timeframe
compute_catchup_window_nodata(store, t, tf, symbols) ==
    LET latest_map == get_latest_by_symbol(store, tf, symbols)
        n == Cardinality(DOMAIN latest_map)
        min_latest == IF n > 0 THEN SetMin(Range(latest_map))
                      ELSE t - buffers(tf)
        start == IF n = 0
                 THEN t - fallbacks(tf)
                 ELSE Max(0, min_latest) - buffers(tf)
    IN [start |-> Min(start, t - 1), end |-> t]

\* the final `start = min(start, now - 1s)` left out
compute_catchup_window_unclamped(store, t, tf, symbols) ==
    LET latest_map == get_latest_by_symbol(store, tf, symbols)
        n == Cardinality(DOMAIN latest_map)
        min_latest == IF n > 0 THEN SetMin(Range(latest_map))
                      ELSE t - buffers(tf)
        start == IF n < Len(symbols)
                 THEN t - fallbacks(tf)
                 ELSE Max(0, min_latest) - buffers(tf)
    IN [start |-> start, end |-> t]

\* compute_catchup_window at wall-clock time t
compute_catchup_window(store, t, tf, symbols) ==
    LET latest_map == get_latest_by_symbol(store, tf, symbols)
        n == Cardinality(DOMAIN latest_map)
        min_latest == IF n > 0 THEN SetMin(Range(latest_map))
                      ELSE t - buffers(tf)
        start == IF n < Len(symbols)
                 THEN t - fallbacks(tf)
                 ELSE Max(0, min_latest) - buffers(tf)
    IN [start |-> Min(start, t - 1), end |-> t]

\* chunked(lst, size): the k-th slice lst[(k-1)*size : k*size]
NumChunks(lst, size) == (Len(lst) + size - 1) \div size

\* the slice taken one element too long: lst[i:i+size+1]
ChunkOverlap(lst, size, k) ==
    SubSeq(lst, (k - 1) * size + 1, Min(k * size + 1, Len(lst)))

Chunk(lst, size, k) == SubSeq(lst, (k - 1) * size + 1, Min(k * size, Len(lst)))

\* for i in range(0, len(lst), size): yield lst[i:i+size]
chunked(lst, size) == [k \in 1..NumChunks(lst, size) |-> Chunk(lst, size, k)]

----------------------------------------------------------------------------
(* Bounds and inputs                                                        *)

\* child processes ever started
MaxProcs == 2

\* realtime loop threads ever created
MaxThreads == 2

\* request handlers that may call start_realtime_ingest
MaxCallers == 2

Callers == 1..MaxCallers

\* --chunk: default 100
DefaultChunk == 100

\* --chunk values a command-line run is given
ChunkSizes == {1, DefaultChunk}

\* --tfs lists
TfsLists == {<<"1Min">>, <<"1Min", "5Min">>}

\* successive readings of the wall clock
Clock == <<1100, 1160>>

\* what the store holds when the system starts
EmptyStore == {}

SeededStore ==
    {Bar(1, "1Min", 1000, 1), Bar(2, "1Min", 900, 1), Bar(1, "5Min", 1000, 1)}

\* bars the upstream provider has (it may correct a value: symbol 2, 1Min, 900)
ProviderPool ==
    {Bar(1, "1Min", 1060, 1), Bar(2, "1Min", 900, 2),
     Bar(2, "5Min", 600, 1), Bar(1, "30Min", 600, 1)}

\* GET /stocks/bars?symbols=..&timeframe=..&start=..&end=..: the rows of a
\* 200 response, normalised by fetch_bars_multi
ProviderRows(group, tf, start, end) ==
    SeqsUpTo({b \in ProviderPool : /\ b.symbol \in Range(group)
                                   /\ b.timeframe = tf
                                   /\ start <= b.timestamp
                                   /\ b.timestamp < end}, MaxBatch)

----------------------------------------------------------------------------
(* Child processes: ingest_catchup.py main / run_catchup_for_timeframe      *)

NewProc(script, origin, tfs, chunk) ==
    [script |-> script, origin |-> origin, tfs |-> tfs, chunk |-> chunk,
     pc |-> "start", symbols |-> <<>>, tfi |-> 0, start |-> 0, end |-> 0,
     run_id |-> 0, gi |-> 0, rows |-> <<>>, inserted |-> 0,
     total_inserted |-> 0, answered |-> {}, fresh0 |-> None, cur |-> 0,
     requested |-> {}, errored |-> 0, paused |-> TRUE, reqlog |-> <<>>]

ProcIds == DOMAIN procs

CurTf(p) == procs[p].tfs[procs[p].tfi]

\* the for loop of run_catchup_for_timeframe takes the next group, or falls
\* through to the final update when the generator is exhausted
NextGroup(pr) ==
    IF pr.gi + 1 <= NumChunks(pr.symbols, pr.chunk)
    THEN [pr EXCEPT !.gi = pr.gi + 1, !.pc = "fetch", !.rows = <<>>, !.inserted = 0]
    ELSE [pr EXCEPT !.gi = pr.gi + 1, !.pc = "finish", !.rows = <<>>, !.inserted = 0]

\* time.sleep(pause_s) after a group, time.sleep(2.0) after a 429
Pause(pr) == [pr EXCEPT !.paused = TRUE]

\* `break` in place of `continue`: a 429 ends the loop over the groups
AfterRateLimitBreak(pr) == [pr EXCEPT !.pc = "finish"]

\* except requests.HTTPError with '429': sleep(2.0); continue
AfterRateLimit(pr) == NextGroup(pr)

procUnchanged == <<rt_stop, rt_thread, threads, starters, call, win>>

\* main without `if not symbols: return`
ProcStartUnguarded(p) ==
    /\ procs[p].pc = "start"
    /\ procs[p].script = "catchup"
    /\ procs' = [procs EXCEPT ![p] =
            [@ EXCEPT !.pc = "window", !.tfi = 1,
                      !.symbols = get_symbols_with_data(bars, "1Min")]]
    /\ UNCHANGED <<bars, ingest_runs, now, hist>>
    /\ UNCHANGED procUnchanged

\* main: symbols = get_symbols_with_data('1Min'); return if there are none
ProcStart(p) ==
    /\ procs[p].pc = "start"
    /\ procs[p].script = "catchup"
    /\ LET symbols == get_symbols_with_data(bars, "1Min")
       IN procs' = [procs EXCEPT ![p] =
            IF symbols = <<>> THEN [@ EXCEPT !.pc = "done"]
            ELSE [@ EXCEPT !.pc = "window", !.symbols = symbols, !.tfi = 1]]
    /\ UNCHANGED <<bars, ingest_runs, now, hist>>
    /\ UNCHANGED procUnchanged

\* run_catchup_for_timeframe: start, end = compute_catchup_window(...)
ProcWindow(p) ==
    /\ procs[p].pc = "window"
    /\ LET w == compute_catchup_window(bars, now, CurTf(p), procs[p].symbols)
       IN procs' = [procs EXCEPT ![p] =
            [@ EXCEPT !.pc = "create", !.start = w.start, !.end = w.end,
                      !.total_inserted = 0,
                      !.fresh0 = get_timeframe_freshness(bars, CurTf(p))]]
    /\ UNCHANGED <<bars, ingest_runs, now, hist>>
    /\ UNCHANGED procUnchanged

\* run_id = create_ingest_run(...), then the loop takes the first group
ProcCreate(p) ==
    /\ procs[p].pc = "create"
    /\ ingest_runs' = create_ingest_run(ingest_runs, CurTf(p), "catchup",
                                        procs[p].start, procs[p].end, p)
    /\ procs' = [procs EXCEPT ![p] =
            [@ EXCEPT !.pc = "fetch", !.run_id = Len(ingest_runs) + 1,
                      !.gi = 1, !.answered = {}, !.requested = {},
                      !.errored = 0, !.paused = TRUE, !.reqlog = <<>>]]
    /\ hist' = [hist EXCEPT !.fresh_before = Append(@, procs[p].fresh0)]
    /\ UNCHANGED <<bars, now>>
    /\ UNCHANGED procUnchanged

CurGroup(p) == chunked(procs[p].symbols, procs[p].chunk)[procs[p].gi]

\* fetch_bars_multi returns rows (possibly none)
ProcFetchRows(p) ==
    /\ procs[p].pc = "fetch"
    /\ \E rows \in ProviderRows(CurGroup(p), CurTf(p), procs[p].start, procs[p].end) :
        procs' = [procs EXCEPT ![p] =
            LET pr == [@ EXCEPT !.answered = @ \cup {procs[p].gi},
                                !.requested = @ \cup {procs[p].gi},
                                !.reqlog = Append(@, procs[p].gi),
                                !.paused = FALSE]
            IN IF rows # <<>> THEN [pr EXCEPT !.pc = "insert", !.rows = rows]
               ELSE NextGroup(Pause(pr))]
    /\ UNCHANGED <<bars, ingest_runs, now, hist>>
    /\ UNCHANGED procUnchanged

\* fetch_bars_multi raises HTTPError("429 Too Many Requests")
ProcFetchRateLimited(p) ==
    /\ procs[p].pc = "fetch"
    /\ procs' = [procs EXCEPT ![p] =
            AfterRateLimit(Pause([@ EXCEPT !.requested = @ \cup {procs[p].gi},
                                           !.reqlog = Append(@, procs[p].gi)]))]
    /\ UNCHANGED <<bars, ingest_runs, now, hist>>
    /\ UNCHANGED procUnchanged

\* no `except Exception` around the group: the exception ends the process
ProcFetchErrorAbort(p) ==
    /\ procs[p].pc = "fetch"
    /\ procs' = [procs EXCEPT ![p] =
            [@ EXCEPT !.pc = "done", !.requested = @ \cup {procs[p].gi},
                      !.errored = IF @ = 0 THEN procs[p].gi ELSE @]]
    /\ UNCHANGED <<bars, ingest_runs, now, hist>>
    /\ UNCHANGED procUnchanged

\* raise_for_status or any other exception: printed, next group
ProcFetchError(p) ==
    /\ procs[p].pc = "fetch"
    /\ procs' = [procs EXCEPT ![p] =
            NextGroup([@ EXCEPT !.answered = @ \cup {procs[p].gi},
                                !.requested = @ \cup {procs[p].gi},
                                !.reqlog = Append(@, procs[p].gi),
                                !.paused = FALSE,
                                !.errored = IF @ = 0 THEN procs[p].gi ELSE @])]
    /\ UNCHANGED <<bars, ingest_runs, now, hist>>
    /\ UNCHANGED procUnchanged

\* inserted = insert_bars_batch(rows) or 0; total_inserted += inserted
ProcInsert(p) ==
    /\ procs[p].pc = "insert"
    /\ \E ok \in BOOLEAN :
        LET r == insert_bars_batch(bars, procs[p].rows, ok)
        IN /\ bars' = r.store
           /\ procs' = [procs EXCEPT ![p] =
                LET pr == [@ EXCEPT !.total_inserted = @ + r.ret]
                IN IF r.ret # 0
                   THEN [pr EXCEPT !.pc = "update", !.inserted = r.ret, !.rows = <<>>]
                   ELSE NextGroup(Pause(pr))]
    /\ UNCHANGED <<ingest_runs, now, hist>>
    /\ UNCHANGED procUnchanged

\* update_ingest_run(run_id, inserted_rows_increment=inserted); sleep(pause_s)
ProcUpdate(p) ==
    /\ procs[p].pc = "update"
    /\ ingest_runs' = update_ingest_run(ingest_runs, procs[p].run_id, None,
                                        Some(procs[p].inserted), FALSE, now)
    /\ procs' = [procs EXCEPT ![p] = NextGroup(Pause(@))]
    /\ UNCHANGED <<bars, now, hist>>
    /\ UNCHANGED procUnchanged

\* update_ingest_run(run_id, status='finished', ended_at_now=True); main then
\* takes the next timeframe
ProcFinish(p) ==
    /\ procs[p].pc = "finish"
    /\ ingest_runs' = update_ingest_run(ingest_runs, procs[p].run_id,
                                        Some("finished"), None, TRUE, now)
    /\ procs' = [procs EXCEPT ![p] =
            IF procs[p].tfi + 1 <= Len(procs[p].tfs)
            THEN [@ EXCEPT !.pc = "window", !.tfi = @ + 1, !.errored = 0,
                           !.paused = TRUE]
            ELSE [@ EXCEPT !.pc = "done", !.errored = 0, !.paused = TRUE]]
    /\ UNCHANGED <<bars, now, hist>>
    /\ UNCHANGED procUnchanged

\* one step of child process p running ingest_catchup.py
ProcStep(p) ==
    /\ p \in ProcIds
    /\ \/ ProcStart(p) \/ ProcWindow(p) \/ ProcCreate(p)
       \/ ProcFetchRows(p) \/ ProcFetchRateLimited(p) \/ ProcFetchError(p)
       \/ ProcInsert(p) \/ ProcUpdate(p) \/ ProcFinish(p)

\* the wall clock advances
Tick ==
    /\ \E i \in 1..(Len(Clock) - 1) : now = Clock[i] /\ now' = Clock[i + 1]
    /\ UNCHANGED <<bars, ingest_runs, procs, hist>>
    /\ UNCHANGED procUnchanged

\* python ingest_catchup.py --tfs .. --chunk ..
CliCatchup(tfs, chunk) ==
    /\ Len(procs) < MaxProcs
    /\ procs' = Append(procs, NewProc("catchup", "cli", tfs, chunk))
    /\ UNCHANGED <<bars, ingest_runs, now, hist>>
    /\ UNCHANGED procUnchanged

\* the last direct call of the store API: its arguments, its return value and
\* the store it found
CallInit == [op |-> "none", rows |-> <<>>, ok |-> TRUE, ret |-> 0, before |-> {}]

WinInit == [called |-> FALSE, timeframe |-> "1Min", symbols |-> <<>>,
            start |-> 0, end |-> 0]

\* fresh_before[i]: the freshness of run i's timeframe read when the run
\* started; starts_in_row: start_realtime_ingest calls returned since the last
\* stop_realtime_ingest (counted up to 2); stopped: "no" until
\* stop_realtime_ingest is called and again once a later start_realtime_ingest
\* is issued, otherwise whether the last stop found a start call in progress
\* ("overlapped") or none ("clean")
HistInit == [fresh_before |-> <<>>, starts_in_row |-> 0, stopped |-> "no"]

StartersInit == [c \in Callers |-> "idle"]

Init ==
    /\ bars \in {EmptyStore, SeededStore}
    /\ ingest_runs = <<>>
    /\ now = Clock[1]
    /\ procs = <<>>
    /\ rt_stop = FALSE
    /\ rt_thread = 0
    /\ threads = <<>>
    /\ starters = StartersInit
    /\ call = CallInit
    /\ win = WinInit
    /\ hist = HistInit

Next ==
    \/ \E tfs \in TfsLists, chunk \in ChunkSizes : CliCatchup(tfs, chunk)
    \/ \E p \in ProcIds : ProcStart(p)
    \/ \E p \in ProcIds : ProcWindow(p)
    \/ \E p \in ProcIds : ProcCreate(p)
    \/ \E p \in ProcIds : ProcFetchRows(p)
    \/ \E p \in ProcIds : ProcFetchRateLimited(p)
    \/ \E p \in ProcIds : ProcFetchError(p)
    \/ \E p \in ProcIds : ProcInsert(p)
    \/ \E p \in ProcIds : ProcUpdate(p)
    \/ \E p \in ProcIds : ProcFinish(p)
    \/ Tick

Spec == Init /\ [][Next]_vars

----------------------------------------------------------------------------
(* Backfill process: fetch_30min_last8weeks.py with fetch_bars of           *)
(* fetch_historical_data.py                                                 *)

\* fetch_for_existing_symbols(days=56, ...), seconds
BackfillSeconds == 56 * 86400

\* chunk_days = 7 of fetch_bars, seconds
ChunkSeconds == 7 * 86400

\* chunk_end = min(current_start + timedelta(days=chunk_days), end)
ChunkEnd(pr) == Min(pr.cur + ChunkSeconds, pr.end)

\* GET /stocks/{symbol}/bars for one chunk: the bars of a 200 response
SymbolRows(symbol, tf, start, end) ==
    SeqsUpTo({b \in ProviderPool : /\ b.symbol = symbol
                                   /\ b.timeframe = tf
                                   /\ start <= b.timestamp
                                   /\ b.timestamp <= end}, MaxBatch)

\* the for loop over the symbols takes the next symbol and enters fetch_bars
\* (current_start = start, all_bars = []), or falls through to the final update
NextSymbol(pr) ==
    IF pr.gi + 1 <= Len(pr.symbols)
    THEN [pr EXCEPT !.gi = pr.gi + 1, !.pc = "b_request", !.cur = pr.start,
                    !.rows = <<>>, !.inserted = 0]
    ELSE [pr EXCEPT !.gi = pr.gi + 1, !.pc = "b_finish", !.cur = pr.start,
                    !.rows = <<>>, !.inserted = 0]

\* fetch_bars returned all_bars: `if not bars: continue`, else insert
AfterFetchBars(pr) ==
    IF pr.rows = <<>> THEN NextSymbol(pr) ELSE [pr EXCEPT !.pc = "b_insert"]

\* current_start = chunk_end + timedelta(seconds=1); while current_start < end
AfterChunk(pr) ==
    LET nxt == ChunkEnd(pr) + 1
    IN IF nxt < pr.end THEN [pr EXCEPT !.cur = nxt]
       ELSE AfterFetchBars([pr EXCEPT !.cur = nxt])

\* python fetch_30min_last8weeks.py
LaunchBackfill ==
    /\ Len(procs) < MaxProcs
    /\ procs' = Append(procs, NewProc("backfill", "cli", <<"30Min">>, 1))
    /\ UNCHANGED <<bars, ingest_runs, now, hist>>
    /\ UNCHANGED procUnchanged

\* symbols = get_symbols_with_data('1Min'); return if none; end_dt = now
BfStart(p) ==
    /\ procs[p].pc = "start"
    /\ procs[p].script = "backfill"
    /\ LET symbols == get_symbols_with_data(bars, "1Min")
       IN procs' = [procs EXCEPT ![p] =
            IF symbols = <<>> THEN [@ EXCEPT !.pc = "done"]
            ELSE [@ EXCEPT !.pc = "b_create", !.symbols = symbols, !.tfi = 1,
                           !.start = now - BackfillSeconds, !.end = now,
                           !.fresh0 = get_timeframe_freshness(bars, "30Min")]]
    /\ UNCHANGED <<bars, ingest_runs, now, hist>>
    /\ UNCHANGED procUnchanged

\* run_id = create_ingest_run(mode='backfill_8w', ...); first symbol
BfCreate(p) ==
    /\ procs[p].pc = "b_create"
    /\ ingest_runs' = create_ingest_run(ingest_runs, CurTf(p), "backfill_8w",
                                        procs[p].start, procs[p].end, p)
    /\ procs' = [procs EXCEPT ![p] =
            [@ EXCEPT !.pc = "b_request", !.run_id = Len(ingest_runs) + 1,
                      !.gi = 1, !.cur = procs[p].start, !.rows = <<>>]]
    /\ hist' = [hist EXCEPT !.fresh_before = Append(@, procs[p].fresh0)]
    /\ UNCHANGED <<bars, now>>
    /\ UNCHANGED procUnchanged

\* fetch_bars: status 200, the chunk's bars are appended to all_bars
BfRequestOk(p) ==
    /\ procs[p].pc = "b_request"
    /\ \E rows \in SymbolRows(procs[p].symbols[procs[p].gi], CurTf(p),
                              procs[p].cur, ChunkEnd(procs[p])) :
        procs' = [procs EXCEPT ![p] = AfterChunk([@ EXCEPT !.rows = @ \o rows])]
    /\ UNCHANGED <<bars, ingest_runs, now, hist>>
    /\ UNCHANGED procUnchanged

\* fetch_bars: status 429, "Rate limited, waiting..."
BfRequestRateLimited(p) ==
    /\ procs[p].pc = "b_request"
    /\ procs' = [procs EXCEPT ![p] = [@ EXCEPT !.pc = "b_backoff"]]
    /\ UNCHANGED <<bars, ingest_runs, now, hist>>
    /\ UNCHANGED procUnchanged

\* time.sleep(2); continue: the same chunk is requested again
BfBackoff(p) ==
    /\ procs[p].pc = "b_backoff"
    /\ procs' = [procs EXCEPT ![p] = [@ EXCEPT !.pc = "b_request"]]
    /\ UNCHANGED <<bars, ingest_runs, now, hist>>
    /\ UNCHANGED procUnchanged

\* fetch_bars: any other status or an exception: break, return all_bars
BfRequestError(p) ==
    /\ procs[p].pc = "b_request"
    /\ procs' = [procs EXCEPT ![p] = AfterFetchBars(@)]
    /\ UNCHANGED <<bars, ingest_runs, now, hist>>
    /\ UNCHANGED procUnchanged

\* inserted = insert_bars_batch(bars); total_new += inserted
BfInsert(p) ==
    /\ procs[p].pc = "b_insert"
    /\ \E ok \in BOOLEAN :
        LET r == insert_bars_batch(bars, procs[p].rows, ok)
        IN /\ bars' = r.store
           /\ procs' = [procs EXCEPT ![p] =
                LET pr == [@ EXCEPT !.total_inserted = @ + r.ret]
                IN IF r.ret # 0
                   THEN [pr EXCEPT !.pc = "b_update", !.inserted = r.ret, !.rows = <<>>]
                   ELSE NextSymbol(pr)]
    /\ UNCHANGED <<ingest_runs, now, hist>>
    /\ UNCHANGED procUnchanged

\* update_ingest_run(run_id, inserted_rows_increment=inserted); sleep(0.15)
BfUpdate(p) ==
    /\ procs[p].pc = "b_update"
    /\ ingest_runs' = update_ingest_run(ingest_runs, procs[p].run_id, None,
                                        Some(procs[p].inserted), FALSE, now)
    /\ procs' = [procs EXCEPT ![p] = NextSymbol(@)]
    /\ UNCHANGED <<bars, now, hist>>
    /\ UNCHANGED procUnchanged

\* update_ingest_run(run_id, status='finished', ended_at_now=True)
BfFinish(p) ==
    /\ procs[p].pc = "b_finish"
    /\ ingest_runs' = update_ingest_run(ingest_runs, procs[p].run_id,
                                        Some("finished"), None, TRUE, now)
    /\ procs' = [procs EXCEPT ![p] = [@ EXCEPT !.pc = "done"]]
    /\ UNCHANGED <<bars, now, hist>>
    /\ UNCHANGED procUnchanged

\* one step of process p running fetch_30min_last8weeks.py
BfStep(p) ==
    /\ p \in ProcIds
    /\ \/ BfStart(p) \/ BfCreate(p) \/ BfRequestOk(p) \/ BfRequestRateLimited(p)
       \/ BfBackoff(p) \/ BfRequestError(p) \/ BfInsert(p) \/ BfUpdate(p)
       \/ BfFinish(p)

\* a 30Min backfill next to 30Min catch-up runs
NextBackfill ==
    \/ LaunchBackfill
    \/ \E chunk \in ChunkSizes : CliCatchup(<<"30Min">>, chunk)
    \/ \E p \in ProcIds : BfStart(p)
    \/ \E p \in ProcIds : BfCreate(p)
    \/ \E p \in ProcIds : BfRequestOk(p)
    \/ \E p \in ProcIds : BfRequestRateLimited(p)
    \/ \E p \in ProcIds : BfBackoff(p)
    \/ \E p \in ProcIds : BfRequestError(p)
    \/ \E p \in ProcIds : BfInsert(p)
    \/ \E p \in ProcIds : BfUpdate(p)
    \/ \E p \in ProcIds : BfFinish(p)
    \/ \E p \in ProcIds : ProcStart(p)
    \/ \E p \in ProcIds : ProcWindow(p)
    \/ \E p \in ProcIds : ProcCreate(p)
    \/ \E p \in ProcIds : ProcFetchRows(p)
    \/ \E p \in ProcIds : ProcFetchRateLimited(p)
    \/ \E p \in ProcIds : ProcFetchError(p)
    \/ \E p \in ProcIds : ProcInsert(p)
    \/ \E p \in ProcIds : ProcUpdate(p)
    \/ \E p \in ProcIds : ProcFinish(p)
    \/ Tick

SpecBackfill == Init /\ [][NextBackfill]_vars

\* a launched process keeps executing (the operating system schedules it),
\* whichever script it runs; nothing is assumed about the provider's answers
SpecBackfillFair ==
    SpecBackfill /\ \A p \in 1..MaxProcs : WF_vars(ProcStep(p) \/ BfStep(p))

----------------------------------------------------------------------------
(* On-demand launches: POST /api/ingest/start (app.py start_ingest)         *)

\* parse_tf of ingest_catchup.py on the flags passed by --tfs
parse_tf(flag) ==
    CASE flag = "1m" -> "1Min"
      [] flag = "5m" -> "5Min"
      [] flag = "30m" -> "30Min"

\* the timeframe start_ingest asks the ledger about: by the flag's first
\* character
GuardTimeframe(flag) ==
    CASE flag = "1m" -> "1Min"
      [] flag = "5m" -> "5Min"
      [] OTHER -> "30Min"

\* timeframes = [parse_tf(tf) for tf in args.tfs.split(',')]
ParseTfs(tfs) == [i \in DOMAIN tfs |-> parse_tf(tfs[i])]

\* the tfs of the request body
OnDemandTfs == {<<"1m">>, <<"1m", "5m">>}

OnDemandModes == {"catchup", "backfill_30m_8w", "rebuild"}

\* any(has_running_ingest(tf_map, 'catchup') for tf_map in [...])
DuplicateRunning(runs, tfs) ==
    \E i \in DOMAIN tfs :
        has_running_ingest(runs, Some(GuardTimeframe(tfs[i])), Some("catchup"))

\* the duplicate check refusing the launch
AfterDuplicateCheckRefuse(dup) == IF dup THEN "return" ELSE "spawn"

\* `if any(...): pass  # allow user to queue another if needed`
AfterDuplicateCheck(dup) == "spawn"

onDemandUnchanged == <<bars, ingest_runs, now, rt_stop, rt_thread, threads,
                       starters, win, hist>>

\* start_ingest with Popen succeeding: 400 for an unsupported mode, else the
\* child is spawned and 202 returned
StartIngest(mode, tfs) ==
    /\ Len(procs) < MaxProcs
    /\ LET dup == mode = "catchup" /\ DuplicateRunning(ingest_runs, tfs)
           spawn == /\ mode \in {"catchup", "backfill_30m_8w"}
                    /\ mode = "catchup" => AfterDuplicateCheck(dup) = "spawn"
       IN /\ procs' =
                IF ~spawn THEN procs
                ELSE IF mode = "catchup"
                THEN Append(procs, NewProc("catchup", "ondemand",
                                           ParseTfs(tfs), DefaultChunk))
                ELSE Append(procs, NewProc("backfill", "ondemand", <<"30Min">>, 1))
          /\ call' = [op |-> "start_ingest", mode |-> mode, tfs |-> tfs,
                      dup |-> dup, spawned |-> spawn,
                      ret |-> IF mode \in {"catchup", "backfill_30m_8w"}
                              THEN 202 ELSE 400]
    /\ UNCHANGED onDemandUnchanged

\* start_ingest when subprocess.Popen raises: except Exception, 500
StartIngestRaises(mode, tfs) ==
    /\ mode \in {"catchup", "backfill_30m_8w"}
    /\ call' = [op |-> "start_ingest", mode |-> mode, tfs |-> tfs,
                dup |-> mode = "catchup" /\ DuplicateRunning(ingest_runs, tfs),
                spawned |-> FALSE, ret |-> 500]
    /\ UNCHANGED procs
    /\ UNCHANGED onDemandUnchanged

\* on-demand launches and the children they start
NextOnDemand ==
    \/ \E mode \in OnDemandModes, tfs \in OnDemandTfs : StartIngest(mode, tfs)
    \/ \E mode \in OnDemandModes, tfs \in OnDemandTfs : StartIngestRaises(mode, tfs)
    \/ \E p \in ProcIds : BfStart(p)
    \/ \E p \in ProcIds : BfCreate(p)
    \/ \E p \in ProcIds : BfRequestOk(p)
    \/ \E p \in ProcIds : BfRequestRateLimited(p)
    \/ \E p \in ProcIds : BfBackoff(p)
    \/ \E p \in ProcIds : BfRequestError(p)
    \/ \E p \in ProcIds : BfInsert(p)
    \/ \E p \in ProcIds : BfUpdate(p)
    \/ \E p \in ProcIds : BfFinish(p)
    \/ \E p \in ProcIds : ProcStart(p)
    \/ \E p \in ProcIds : ProcWindow(p)
    \/ \E p \in ProcIds : ProcCreate(p)
    \/ \E p \in ProcIds : ProcFetchRows(p)
    \/ \E p \in ProcIds : ProcFetchRateLimited(p)
    \/ \E p \in ProcIds : ProcFetchError(p)
    \/ \E p \in ProcIds : ProcInsert(p)
    \/ \E p \in ProcIds : ProcUpdate(p)
    \/ \E p \in ProcIds : ProcFinish(p)

SpecOnDemand == Init /\ [][NextOnDemand]_vars

----------------------------------------------------------------------------
(* One catch-up process on universes and chunk sizes of every length        *)

MaxSymbols == 4

MaxChunk == 3

\* stores whose universe is 1..n: one 1Min bar per symbol
ChunkStores == {{Bar(s, "1Min", 900, 1) : s \in 1..n} : n \in 1..MaxSymbols}

\* python ingest_catchup.py --tfs 1m --chunk c, just launched
InitChunk ==
    /\ bars \in ChunkStores
    /\ ingest_runs = <<>>
    /\ now = Clock[1]
    /\ procs \in {<<NewProc("catchup", "cli", <<"1Min">>, c)>> :
                    c \in (1..MaxChunk) \cup {DefaultChunk}}
    /\ rt_stop = FALSE
    /\ rt_thread = 0
    /\ threads = <<>>
    /\ starters = StartersInit
    /\ call = CallInit
    /\ win = WinInit
    /\ hist = HistInit

NextChunk ==
    \/ \E p \in ProcIds : ProcStart(p)
    \/ \E p \in ProcIds : ProcWindow(p)
    \/ \E p \in ProcIds : ProcCreate(p)
    \/ \E p \in ProcIds : ProcFetchRows(p)
    \/ \E p \in ProcIds : ProcFetchRateLimited(p)
    \/ \E p \in ProcIds : ProcFetchError(p)
    \/ \E p \in ProcIds : ProcInsert(p)
    \/ \E p \in ProcIds : ProcUpdate(p)
    \/ \E p \in ProcIds : ProcFinish(p)

SpecChunk == InitChunk /\ [][NextChunk]_vars

----------------------------------------------------------------------------
(* The store API called directly: insert_bar and insert_bars_batch with     *)
(* arbitrary rows                                                           *)

StoreRows ==
    {Bar(s, "1Min", 900, v) : s \in Symbols, v \in Vals} \cup {Bar(1, "5Min", 900, 1)}

storeUnchanged == <<ingest_runs, now, procs, rt_stop, rt_thread, threads,
                    starters, win, hist>>

InsertBarCall(row, ok) ==
    /\ LET r == insert_bar(bars, row, ok)
       IN /\ bars' = r.store
          /\ call' = [op |-> "insert_bar", rows |-> <<row>>, ok |-> ok, ret |-> r.ret,
                      before |-> bars]
    /\ UNCHANGED storeUnchanged

InsertBarsBatchCall(rows, ok) ==
    /\ LET r == insert_bars_batch(bars, rows, ok)
       IN /\ bars' = r.store
          /\ call' = [op |-> "insert_bars_batch", rows |-> rows, ok |-> ok,
                      ret |-> r.ret, before |-> bars]
    /\ UNCHANGED storeUnchanged

InitStore ==
    /\ bars = EmptyStore
    /\ ingest_runs = <<>>
    /\ now = Clock[1]
    /\ procs = <<>>
    /\ rt_stop = FALSE
    /\ rt_thread = 0
    /\ threads = <<>>
    /\ starters = StartersInit
    /\ call = CallInit
    /\ win = WinInit
    /\ hist = HistInit

NextStore ==
    \/ \E row \in StoreRows, ok \in BOOLEAN : InsertBarCall(row, ok)
    \/ \E rows \in SeqsUpTo(StoreRows, MaxBatch), ok \in BOOLEAN :
            InsertBarsBatchCall(rows, ok)

SpecStore == InitStore /\ [][NextStore]_vars

----------------------------------------------------------------------------
(* Two simultaneous runs each committing one batch: SQLite serialises the   *)
(* two transactions, `first` commits before `second`                        *)

\* stores of the rows of StoreRows that respect the UNIQUE constraint
PairStores ==
    {S \in SUBSET StoreRows : \A x, y \in S : SameKey(x, y) => x = y}

TwoRunsInsert(first, second) ==
    /\ call.op = "none"
    /\ LET r1 == insert_bars_batch(bars, first, TRUE)
           r2 == insert_bars_batch(r1.store, second, TRUE)
       IN /\ bars' = r2.store
          /\ call' = [op |-> "two_runs", rows |-> first \o second, ok |-> TRUE,
                      ret |-> r1.ret + r2.ret, before |-> bars,
                      first |-> first, second |-> second, mid |-> r1.store]
    /\ UNCHANGED storeUnchanged

InitTwoRuns ==
    /\ bars \in PairStores
    /\ ingest_runs = <<>>
    /\ now = Clock[1]
    /\ procs = <<>>
    /\ rt_stop = FALSE
    /\ rt_thread = 0
    /\ threads = <<>>
    /\ starters = StartersInit
    /\ call = CallInit
    /\ win = WinInit
    /\ hist = HistInit

NextTwoRuns ==
    \E first \in SeqsUpTo(StoreRows, MaxBatch), second \in SeqsUpTo(StoreRows, MaxBatch) :
        TwoRunsInsert(first, second)

SpecTwoRuns == InitTwoRuns /\ [][NextTwoRuns]_vars

----------------------------------------------------------------------------
(* compute_catchup_window called directly on arbitrary stores and clocks    *)

\* timestamps a (symbol, timeframe) pair may hold in the store
WindowHoldings == {{}, {900}, {900, 1000}, {4000000}}

WindowKeys == Symbols \X TFs

WindowStores ==
    {UNION {{Bar(k[1], k[2], ts, 1) : ts \in h[k]} : k \in WindowKeys} :
        h \in [WindowKeys -> WindowHoldings]}

WindowNows == {950, 1100, 2000000}

WindowSymbols == {<<1>>, <<2>>, <<1, 2>>}

windowUnchanged == <<bars, ingest_runs, now, procs, rt_stop, rt_thread,
                     threads, starters, call, hist>>

ComputeWindowCall(tf, symbols) ==
    /\ ~win.called
    /\ LET w == compute_catchup_window(bars, now, tf, symbols)
       IN win' = [called |-> TRUE, timeframe |-> tf, symbols |-> symbols,
                  start |-> w.start, end |-> w.end]
    /\ UNCHANGED windowUnchanged

InitWindow ==
    /\ bars \in WindowStores
    /\ ingest_runs = <<>>
    /\ now \in WindowNows
    /\ procs = <<>>
    /\ rt_stop = FALSE
    /\ rt_thread = 0
    /\ threads = <<>>
    /\ starters = StartersInit
    /\ call = CallInit
    /\ win = WinInit
    /\ hist = HistInit

NextWindow == \E tf \in TFs, symbols \in WindowSymbols : ComputeWindowCall(tf, symbols)

SpecWindow == InitWindow /\ [][NextWindow]_vars

----------------------------------------------------------------------------
(* Realtime scheduler: app.py                                               *)

\* threading.Thread.is_alive(): started and its run() has not returned
is_alive(th) == th.pc \notin {"new", "dead"}

\* start_realtime_ingest without its guard
AlreadyRunningNever(rt, ths) == FALSE

\* if _rt_thread and _rt_thread.is_alive(): return
AlreadyRunning(rt, ths) == rt # 0 /\ is_alive(ths[rt])

\* the ledger asked for the short flag name instead of the stored timeframe
RealtimeGuardShortName(runs) == has_running_ingest(runs, Some("1m"), Some("catchup"))

\* has_running_ingest('1Min', 'catchup') of _realtime_loop
RealtimeGuard(runs) == has_running_ingest(runs, Some("1Min"), Some("catchup"))

NewThread == [pc |-> "new", last |-> "none"]

ThreadIds == DOMAIN threads

\* calls of start_realtime_ingest that are past the guard and will create a thread
Creating == {c \in Callers : starters[c] \in {"clear", "create"}}

schedUnchanged == <<bars, ingest_runs, now, call, win>>

\* a request handler enters start_realtime_ingest
StartCall(c) ==
    /\ starters[c] = "idle"
    /\ starters' = [starters EXCEPT ![c] = "check"]
    /\ hist' = [hist EXCEPT !.stopped = "no"]
    /\ UNCHANGED <<procs, rt_stop, rt_thread, threads>>
    /\ UNCHANGED schedUnchanged

\* the guard: return when the loop thread is alive
StartCheck(c) ==
    /\ starters[c] = "check"
    /\ IF AlreadyRunning(rt_thread, threads)
       THEN /\ starters' = [starters EXCEPT ![c] = "idle"]
            /\ hist' = [hist EXCEPT !.starts_in_row = Min(2, @ + 1)]
       ELSE /\ Len(threads) + Cardinality(Creating) < MaxThreads
            /\ starters' = [starters EXCEPT ![c] = "clear"]
            /\ hist' = hist
    /\ UNCHANGED <<procs, rt_stop, rt_thread, threads>>
    /\ UNCHANGED schedUnchanged

\* _rt_stop.clear()
StartClear(c) ==
    /\ starters[c] = "clear"
    /\ rt_stop' = FALSE
    /\ starters' = [starters EXCEPT ![c] = "create"]
    /\ UNCHANGED <<procs, rt_thread, threads, hist>>
    /\ UNCHANGED schedUnchanged

\* _rt_thread = threading.Thread(target=_realtime_loop, ...)
StartCreate(c) ==
    /\ starters[c] = "create"
    /\ threads' = Append(threads, NewThread)
    /\ rt_thread' = Len(threads) + 1
    /\ starters' = [starters EXCEPT ![c] = "start"]
    /\ UNCHANGED <<procs, rt_stop, hist>>
    /\ UNCHANGED schedUnchanged

\* _rt_thread.start(): the thread the global names now; RuntimeError when
\* that thread was started already
StartThread(c) ==
    /\ starters[c] = "start"
    /\ threads' = [threads EXCEPT ![rt_thread] =
            IF @.pc = "new" THEN [@ EXCEPT !.pc = "top"] ELSE @]
    /\ starters' = [starters EXCEPT ![c] = "idle"]
    /\ hist' = [hist EXCEPT !.starts_in_row = Min(2, @ + 1)]
    /\ UNCHANGED <<procs, rt_stop, rt_thread>>
    /\ UNCHANGED schedUnchanged

\* stop_realtime_ingest: _rt_stop.set()
StopCall ==
    /\ rt_stop' = TRUE
    /\ hist' = [hist EXCEPT !.starts_in_row = 0,
                            !.stopped = IF \A c \in Callers : starters[c] = "idle"
                                        THEN "clean" ELSE "overlapped"]
    /\ UNCHANGED <<procs, rt_thread, threads, starters>>
    /\ UNCHANGED schedUnchanged

\* `while True:` in place of the test of the stop flag
RtTopForever(t) ==
    /\ threads[t].pc = "top"
    /\ threads' = [threads EXCEPT ![t] = [@ EXCEPT !.pc = "check"]]
    /\ UNCHANGED <<procs, rt_stop, rt_thread, starters, hist>>
    /\ UNCHANGED schedUnchanged

\* while not _rt_stop.is_set()
RtTop(t) ==
    /\ threads[t].pc = "top"
    /\ threads' = [threads EXCEPT ![t] =
            IF rt_stop THEN [@ EXCEPT !.pc = "dead"] ELSE [@ EXCEPT !.pc = "check"]]
    /\ UNCHANGED <<procs, rt_stop, rt_thread, starters, hist>>
    /\ UNCHANGED schedUnchanged

\* if not has_running_ingest('1Min', 'catchup')
RtCheck(t) ==
    /\ threads[t].pc = "check"
    /\ threads' = [threads EXCEPT ![t] =
            IF RealtimeGuard(ingest_runs)
            THEN [@ EXCEPT !.pc = "sleep", !.last = "skipped"]
            ELSE [@ EXCEPT !.pc = "spawn"]]
    /\ UNCHANGED <<procs, rt_stop, rt_thread, starters, hist>>
    /\ UNCHANGED schedUnchanged

\* has_running_ingest raises: except Exception, print, go on to the sleep
RtCheckRaise(t) ==
    /\ threads[t].pc = "check"
    /\ threads' = [threads EXCEPT ![t] = [@ EXCEPT !.pc = "sleep", !.last = "failed"]]
    /\ UNCHANGED <<procs, rt_stop, rt_thread, starters, hist>>
    /\ UNCHANGED schedUnchanged

\* _spawn_ingest('catchup', tfs=['1m']): subprocess.Popen, not waited for
RtSpawn(t) ==
    /\ threads[t].pc = "spawn"
    /\ Len(procs) < MaxProcs
    /\ procs' = Append(procs, NewProc("catchup", "realtime", <<"1Min">>, DefaultChunk))
    /\ threads' = [threads EXCEPT ![t] = [@ EXCEPT !.pc = "sleep", !.last = "spawned"]]
    /\ UNCHANGED <<rt_stop, rt_thread, starters, hist>>
    /\ UNCHANGED schedUnchanged

\* no try/except in the loop body: the exception ends the thread
RtSpawnRaiseDies(t) ==
    /\ threads[t].pc = "spawn"
    /\ threads' = [threads EXCEPT ![t] = [@ EXCEPT !.pc = "dead", !.last = "failed"]]
    /\ UNCHANGED <<procs, rt_stop, rt_thread, starters, hist>>
    /\ UNCHANGED schedUnchanged

\* subprocess.Popen raises
RtSpawnRaise(t) ==
    /\ threads[t].pc = "spawn"
    /\ threads' = [threads EXCEPT ![t] = [@ EXCEPT !.pc = "sleep", !.last = "failed"]]
    /\ UNCHANGED <<procs, rt_stop, rt_thread, starters, hist>>
    /\ UNCHANGED schedUnchanged

\* _rt_stop.wait(sleep_s) returns, by timeout or because the event is set
RtWake(t) ==
    /\ threads[t].pc = "sleep"
    /\ threads' = [threads EXCEPT ![t] = [@ EXCEPT !.pc = "top"]]
    /\ UNCHANGED <<procs, rt_stop, rt_thread, starters, hist>>
    /\ UNCHANGED schedUnchanged

\* one step of loop thread t
ThreadStep(t) ==
    /\ t \in ThreadIds
    /\ \/ RtTop(t) \/ RtCheck(t) \/ RtCheckRaise(t)
       \/ RtSpawn(t) \/ RtSpawnRaise(t) \/ RtWake(t)

\* no other call of start_realtime_ingest is in progress
Alone(c) == \A d \in Callers \ {c} : starters[d] = "idle"

SchedStore == {Bar(1, "1Min", 1000, 1)}

InitSched ==
    /\ bars = SchedStore
    /\ ingest_runs = <<>>
    /\ now = Clock[1]
    /\ procs = <<>>
    /\ rt_stop = FALSE
    /\ rt_thread = 0
    /\ threads = <<>>
    /\ starters = StartersInit
    /\ call = CallInit
    /\ win = WinInit
    /\ hist = HistInit

\* the scheduler driven by one request at a time
NextSched ==
    \/ \E c \in Callers : Alone(c) /\ StartCall(c)
    \/ \E c \in Callers : StartCheck(c)
    \/ \E c \in Callers : StartClear(c)
    \/ \E c \in Callers : StartCreate(c)
    \/ \E c \in Callers : StartThread(c)
    \/ StopCall
    \/ \E t \in ThreadIds : RtTop(t)
    \/ \E t \in ThreadIds : RtCheck(t)
    \/ \E t \in ThreadIds : RtCheckRaise(t)
    \/ \E t \in ThreadIds : RtSpawn(t)
    \/ \E t \in ThreadIds : RtSpawnRaise(t)
    \/ \E t \in ThreadIds : RtWake(t)
    \/ \E p \in ProcIds : ProcStart(p)
    \/ \E p \in ProcIds : ProcWindow(p)
    \/ \E p \in ProcIds : ProcCreate(p)
    \/ \E p \in ProcIds : ProcFetchRows(p)
    \/ \E p \in ProcIds : ProcFetchRateLimited(p)
    \/ \E p \in ProcIds : ProcFetchError(p)
    \/ \E p \in ProcIds : ProcInsert(p)
    \/ \E p \in ProcIds : ProcUpdate(p)
    \/ \E p \in ProcIds : ProcFinish(p)

SpecSched == InitSched /\ [][NextSched]_vars

\* a started loop thread keeps being scheduled
SpecSchedFair == SpecSched /\ \A t \in 1..MaxThreads : WF_vars(ThreadStep(t))

\* child process p is killed (SIGKILL, SIGINT to the process group, power
\* loss): it stops where it is and nothing it has written is undone
ProcCrash(p) ==
    /\ procs[p].pc # "done"
    /\ procs[p].pc # "killed"
    /\ procs' = [procs EXCEPT ![p] =
            [@ EXCEPT !.pc = "killed", !.errored = 0, !.paused = TRUE,
                      !.reqlog = <<>>, !.requested = {}, !.rows = <<>>]]
    /\ UNCHANGED <<bars, ingest_runs, now, hist>>
    /\ UNCHANGED procUnchanged

\* the scheduler started and never stopped, with child processes that may die
NextCrash ==
    \/ \E c \in Callers : Alone(c) /\ StartCall(c)
    \/ \E c \in Callers : StartCheck(c)
    \/ \E c \in Callers : StartClear(c)
    \/ \E c \in Callers : StartCreate(c)
    \/ \E c \in Callers : StartThread(c)
    \/ \E t \in ThreadIds : RtTop(t)
    \/ \E t \in ThreadIds : RtCheck(t)
    \/ \E t \in ThreadIds : RtCheckRaise(t)
    \/ \E t \in ThreadIds : RtSpawn(t)
    \/ \E t \in ThreadIds : RtSpawnRaise(t)
    \/ \E t \in ThreadIds : RtWake(t)
    \/ \E p \in ProcIds : ProcStart(p)
    \/ \E p \in ProcIds : ProcWindow(p)
    \/ \E p \in ProcIds : ProcCreate(p)
    \/ \E p \in ProcIds : ProcFetchRows(p)
    \/ \E p \in ProcIds : ProcFetchRateLimited(p)
    \/ \E p \in ProcIds : ProcFetchError(p)
    \/ \E p \in ProcIds : ProcInsert(p)
    \/ \E p \in ProcIds : ProcUpdate(p)
    \/ \E p \in ProcIds : ProcFinish(p)
    \/ \E p \in ProcIds : ProcCrash(p)

SpecCrash == InitSched /\ [][NextCrash]_vars

\* the loop thread and every child process that is not killed keep running
SpecCrashFair ==
    /\ SpecCrash
    /\ \A t \in 1..MaxThreads : WF_vars(ThreadStep(t))
    /\ \A p \in 1..MaxProcs : WF_vars(ProcStep(p))

\* the scheduler entered by request handlers running at the same time, from
\* a scheduler that was never started; no stop request
NextSchedConc ==
    \/ \E c \in Callers : StartCall(c)
    \/ \E c \in Callers : StartCheck(c)
    \/ \E c \in Callers : StartClear(c)
    \/ \E c \in Callers : StartCreate(c)
    \/ \E c \in Callers : StartThread(c)
    \/ \E t \in ThreadIds : RtTop(t)
    \/ \E t \in ThreadIds : RtCheck(t)
    \/ \E t \in ThreadIds : RtCheckRaise(t)
    \/ \E t \in ThreadIds : RtSpawn(t)
    \/ \E t \in ThreadIds : RtSpawnRaise(t)
    \/ \E t \in ThreadIds : RtWake(t)
    \/ \E p \in ProcIds : ProcStart(p)
    \/ \E p \in ProcIds : ProcWindow(p)
    \/ \E p \in ProcIds : ProcCreate(p)
    \/ \E p \in ProcIds : ProcFetchRows(p)
    \/ \E p \in ProcIds : ProcFetchRateLimited(p)
    \/ \E p \in ProcIds : ProcFetchError(p)
    \/ \E p \in ProcIds : ProcInsert(p)
    \/ \E p \in ProcIds : ProcUpdate(p)
    \/ \E p \in ProcIds : ProcFinish(p)

SpecSchedConc == InitSched /\ [][NextSchedConc]_vars

----------------------------------------------------------------------------
(* Properties                                                               *)

Terminal == {"finished", "error"}

\* C1: on a 429 for a group the run requests the same group again and does
\* not move on until the group got a non-429 outcome: when the loop over the
\* groups has ended, every group of the run has had a non-429 outcome.
C1_NoGroupSkippedOn429 ==
    \A p \in ProcIds :
        procs[p].pc = "finish" =>
            procs[p].answered = 1..NumChunks(procs[p].symbols, procs[p].chunk)

UniqueKeys == \A a, b \in bars : SameKey(a, b) => a = b

\* C2: after any sequence of insert_bar / insert_bars_batch calls there is at
\* most one row per (symbol, timeframe, timestamp), and a stored row is never
\* changed or removed by an insert, whatever values the insert carries.
C2_IdempotentInsert ==
    /\ [](UniqueKeys)
    /\ [][\A b \in bars : b \in bars']_vars

\* C2 witness: a successful call carried a row whose key was stored with
\* other values, and the stored row is still the original one.
C2_Witness ==
    /\ call.op # "none"
    /\ call.ok
    /\ \E k \in DOMAIN call.rows :
        /\ call.rows[k] \notin bars
        /\ \E b \in bars : SameKey(b, call.rows[k])

HasBar(s, tf) == \E b \in bars : b.symbol = s /\ b.timeframe = tf

\* s has a bar of tf and its latest one is at or after t
LatestAtLeast(s, tf, t) ==
    \E b \in bars : b.symbol = s /\ b.timeframe = tf /\ t <= b.timestamp

WinSymbols == Range(win.symbols)

WinFallback == \E s \in WinSymbols : ~HasBar(s, win.timeframe)

\* C3 as claimed: the window start is <= the latest stored timestamp of every
\* universe symbol that has a bar of the timeframe, the fallback case included.
C3_StartCoversEverySymbol ==
    win.called =>
        \A s \in WinSymbols :
            HasBar(s, win.timeframe) => LatestAtLeast(s, win.timeframe, win.start)

\* C3 amended: the window start is <= the latest stored timestamp of every
\* universe symbol that has a bar of the timeframe, except that in the
\* fallback case this holds only for the symbols whose latest bar is not older
\* than now minus the timeframe's fallback horizon.
C3_StartCoversWithinHorizon ==
    win.called =>
        \A s \in WinSymbols :
            /\ HasBar(s, win.timeframe)
            /\ (WinFallback =>
                    LatestAtLeast(s, win.timeframe, win.end - fallbacks(win.timeframe)))
            => LatestAtLeast(s, win.timeframe, win.start)

\* C3 witness: a fallback window whose start is nevertheless at or before the
\* latest bar of a symbol that has one.
C3_Witness ==
    /\ win.called
    /\ WinFallback
    /\ \E s \in WinSymbols :
        /\ HasBar(s, win.timeframe)
        /\ LatestAtLeast(s, win.timeframe, win.start)
        /\ win.start > 0

\* C4: when every universe symbol has a bar of the timeframe, the window start
\* is <= the minimum over the universe of the symbols' latest timestamps.
C4_WindowSafety ==
    (win.called /\ ~WinFallback) =>
        \A s \in WinSymbols : LatestAtLeast(s, win.timeframe, win.start)

\* C4 witness: two symbols with different latest timestamps, all with data.
C4_Witness ==
    /\ win.called
    /\ ~WinFallback
    /\ \E s1, s2 \in WinSymbols :
        /\ LatestAtLeast(s1, win.timeframe, 1000)
        /\ ~LatestAtLeast(s2, win.timeframe, 1000)

\* after >= before for two readings of get_timeframe_freshness
FreshGE(after, before) ==
    IsSome(before) => (IsSome(after) /\ The(after) >= The(before))

\* C5: the freshness of a timeframe read after a catch-up run of the
\* timeframe has finished is >= the freshness read before the run started.
C5_FreshnessMonotone ==
    \A i \in DOMAIN ingest_runs :
        ingest_runs[i].status = "finished" =>
            FreshGE(get_timeframe_freshness(bars, ingest_runs[i].timeframe),
                    hist.fresh_before[i])

\* C9: once a ledger row is finished or error, no step changes its status.
C9_StatusOnlyForward ==
    [][\A i \in DOMAIN ingest_runs :
         ingest_runs[i].status \in Terminal =>
            /\ i \in DOMAIN ingest_runs'
            /\ ingest_runs'[i].status = ingest_runs[i].status]_vars

\* C9 witness: a process finished a run and has since created its next run.
C9_Witness ==
    \E i, j \in DOMAIN ingest_runs :
        /\ i < j
        /\ ingest_runs[i].pid = ingest_runs[j].pid
        /\ ingest_runs[i].status = "finished"
        /\ ingest_runs[j].status = "running"

\* C10: no step decreases the inserted_rows of any ledger row.
C10_InsertedRowsMonotone ==
    [][\A i \in DOMAIN ingest_runs :
         /\ i \in DOMAIN ingest_runs'
         /\ ingest_runs'[i].inserted_rows >= ingest_runs[i].inserted_rows]_vars

\* C10 witness: two runs of different processes have both counted rows, one
\* of them already finalized.
C10_Witness ==
    \E i, j \in DOMAIN ingest_runs :
        /\ ingest_runs[i].pid # ingest_runs[j].pid
        /\ ingest_runs[i].inserted_rows > 0
        /\ ingest_runs[j].inserted_rows > 0
        /\ ingest_runs[i].status = "finished"

AliveThreads == {t \in ThreadIds : threads[t].pc \in {"top", "check", "spawn", "sleep"}}

\* a catch-up process the realtime loop spawned that has not ended
RealtimeChildren ==
    {p \in ProcIds : procs[p].origin = "realtime" /\ procs[p].pc # "done"}

\* C6: the realtime loop never has two of its catch-up processes executing
\* at once, whatever stage the earlier one has reached.
C6_NoOverlap == Cardinality(RealtimeChildren) <= 1

RunningRow1MinCatchup ==
    \E i \in DOMAIN ingest_runs :
        /\ ingest_runs[i].timeframe = "1Min"
        /\ ingest_runs[i].mode = "catchup"
        /\ ingest_runs[i].status = "running"

\* C7: a cycle whose check finds a running 1Min catchup row in the ledger
\* does not go on to spawn, and the loop spawns only after a check.
C7_GuardEnforced ==
    [][\A t \in ThreadIds :
         /\ (threads[t].pc = "check" /\ RunningRow1MinCatchup)
                => threads'[t].pc # "spawn"
         /\ (threads'[t].last = "spawned" /\ threads[t].last # "spawned")
                => threads[t].pc = "spawn"]_vars

\* C7 witness: a cycle skipped its spawn while the ledger holds the running row.
C7_Witness ==
    \E t \in ThreadIds :
        /\ threads[t].pc = "sleep"
        /\ threads[t].last = "skipped"
        /\ RunningRow1MinCatchup

\* a call of start_realtime_ingest returns in this step
StartReturns(c) == starters[c] \in {"check", "start"} /\ starters'[c] = "idle"

\* C8: when start_realtime_ingest returns and an earlier call has returned
\* with no stop_realtime_ingest since, exactly one realtime loop is active.
C8_StartIdempotent ==
    [][\A c \in Callers :
         (StartReturns(c) /\ hist.starts_in_row >= 1)
            => Cardinality({t \in DOMAIN threads' :
                    threads'[t].pc \in {"top", "check", "spawn", "sleep"}}) = 1]_vars

\* C8 witness: two calls in a row have returned and the loop is cycling.
C8_Witness ==
    /\ hist.starts_in_row = 2
    /\ Cardinality(AliveThreads) = 1
    /\ ~rt_stop
    /\ \E t \in AliveThreads : threads[t].last = "spawned"

\* C11: ended_at is unset exactly while the row is running, it is written in
\* the step that moves status from running to a terminal value, and no later
\* step changes it.
C11_EndedAtOnce ==
    /\ [](\A i \in DOMAIN ingest_runs :
            (ingest_runs[i].status = "running") <=> (ingest_runs[i].ended_at = None))
    /\ [][\A i \in DOMAIN ingest_runs :
            /\ i \in DOMAIN ingest_runs'
            /\ IsSome(ingest_runs[i].ended_at)
                  => ingest_runs'[i].ended_at = ingest_runs[i].ended_at
            /\ (ingest_runs[i].ended_at = None /\ IsSome(ingest_runs'[i].ended_at))
                  => /\ ingest_runs[i].status = "running"
                     /\ ingest_runs'[i].status \in Terminal]_vars

\* C11 witness: a backfill run that counted rows is finalized with its
\* ended_at, the clock has moved on since, and a catch-up row is still running.
C11_Witness ==
    \E i, j \in DOMAIN ingest_runs :
        /\ ingest_runs[i].mode = "backfill_8w"
        /\ ingest_runs[i].status = "finished"
        /\ ingest_runs[i].inserted_rows > 0
        /\ IsSome(ingest_runs[i].ended_at)
        /\ The(ingest_runs[i].ended_at) < now
        /\ ingest_runs[j].mode = "catchup"
        /\ ingest_runs[j].status = "running"
        /\ ingest_runs[j].ended_at = None


\* ledger row ids that can exist: one per timeframe of each process
RunIds == 1..(MaxProcs * SetMax({Len(tfs) : tfs \in TfsLists}))

\* status and mode of ledger row i, "absent" while the row does not exist
RowStatus(i) == IF i \in DOMAIN ingest_runs THEN ingest_runs[i].status ELSE "absent"

RowMode(i) == IF i \in DOMAIN ingest_runs THEN ingest_runs[i].mode ELSE "absent"

AllGroups(p) == 1..NumChunks(procs[p].symbols, procs[p].chunk)

\* C12: a catch-up row in status running eventually becomes finished, and the
\* final update is only reached once every group of the run was requested.
C12_RunEventuallyFinalized ==
    /\ \A i \in RunIds :
          (RowMode(i) = "catchup" /\ RowStatus(i) = "running")
             ~> (RowStatus(i) = "finished")
    /\ [](\A p \in ProcIds :
            (procs[p].script = "catchup" /\ procs[p].pc = "finish")
                => procs[p].requested = AllGroups(p))

\* C12 witness: a two-group run was finalized after its first group was rate
\* limited and its second group was answered.
C12_Witness ==
    \E p \in ProcIds :
        /\ procs[p].pc = "done"
        /\ procs[p].chunk = 1
        /\ procs[p].requested = {1, 2}
        /\ procs[p].answered = {2}
        /\ ingest_runs[procs[p].run_id].status = "finished"


\* the position of process p, "absent" before it is launched
ProcPc(p) == IF p \in ProcIds THEN procs[p].pc ELSE "absent"

\* C13: every launched catch-up or backfill process that keeps executing
\* ends: it cannot go on issuing provider requests forever, whatever the
\* provider answers.
C13_EveryRunEnds ==
    \A p \in 1..MaxProcs : (ProcPc(p) # "absent") ~> (ProcPc(p) = "done")


\* the positions of a catch-up process between create_ingest_run and the
\* final update of the run
InRun == {"fetch", "insert", "update", "finish"}

\* C14: a catch-up run in which a group failed hard is not aborted: its
\* process stays in the loop with the row running, every group after the
\* failed one is requested before the final update, and no row is left
\* running by a process that is no longer executing its run.
C14_HardFailureDoesNotAbort ==
    /\ \A p \in ProcIds :
          (procs[p].script = "catchup" /\ procs[p].errored # 0) =>
              /\ procs[p].pc \in InRun
              /\ RowStatus(procs[p].run_id) = "running"
              /\ \A g \in AllGroups(p) :
                    (procs[p].errored < g /\ g < procs[p].gi)
                        => g \in procs[p].requested
              /\ procs[p].pc = "finish" => procs[p].requested = AllGroups(p)
    /\ \A i \in DOMAIN ingest_runs :
          (ingest_runs[i].mode = "catchup" /\ ingest_runs[i].status = "running")
              => \E p \in ProcIds : procs[p].run_id = i /\ procs[p].pc \in InRun

\* C14 witness: the first of two groups failed hard, the second was requested
\* and its rows were counted, and the process is at the final update.
C14_Witness ==
    \E p \in ProcIds :
        /\ procs[p].pc = "finish"
        /\ procs[p].errored = 1
        /\ procs[p].requested = {1, 2}
        /\ ingest_runs[procs[p].run_id].inserted_rows > 0

KeyOf(b) == <<b.symbol, b.timeframe, b.timestamp>>

\* the distinct keys of a batch that the store does not hold
NewKeys(rows, store) == {KeyOf(r) : r \in Range(rows)} \ {KeyOf(b) : b \in store}

\* C15: insert_bars_batch returns the number of rows it added to the store,
\* and when the statement ran (no exception) that is the number of distinct
\* keys of the batch the store did not hold.
C15_BatchReturnsNewRows ==
    call.op = "insert_bars_batch" =>
        /\ call.ret = Cardinality(bars) - Cardinality(call.before)
        /\ call.ok => call.ret = Cardinality(NewKeys(call.rows, call.before))

\* C15 witness: a batch of one stored key and one new key returned 1.
C15_Witness ==
    /\ call.op = "insert_bars_batch"
    /\ call.ok
    /\ Len(call.rows) = 2
    /\ \E b \in call.before : SameKey(b, call.rows[1])
    /\ Cardinality(NewKeys(call.rows, call.before)) = 1
    /\ call.ret = 1

\* the documented horizons: 3, 14 and 56 days, in seconds
Horizon(tf) ==
    CASE tf = "1Min" -> 259200
      [] tf = "5Min" -> 1209600
      [] tf = "30Min" -> 4838400

\* C16: when at least one universe symbol has no bar of the timeframe, the
\* window starts at now minus the timeframe's horizon, whatever the other
\* symbols hold.
C16_FallbackWindow ==
    (win.called /\ WinFallback) => win.start = now - Horizon(win.timeframe)

\* C16 witness: one universe symbol lacks the timeframe, the other has a bar
\* newer than the fallback start.
C16_Witness ==
    /\ win.called
    /\ WinFallback
    /\ \E s \in WinSymbols : LatestAtLeast(s, win.timeframe, win.start + 1)
    /\ win.start = now - Horizon(win.timeframe)

\* C17: the incremental window start is never before epoch 0.
C17_StartNonNegative ==
    (win.called /\ ~WinFallback) => win.start >= 0

\* C18: the window ends at the current time and starts strictly before it.
C18_WindowEndsNow ==
    win.called => (win.end = now /\ win.start < win.end)

\* C18 witness: every universe symbol's latest bar is at or after now plus the
\* buffer, and the start was brought back to one second before now.
C18_Witness ==
    /\ win.called
    /\ ~WinFallback
    /\ \A s \in WinSymbols :
          LatestAtLeast(s, win.timeframe, now + buffers(win.timeframe))
    /\ win.end = now
    /\ win.start = now - 1

\* the known symbols: those with 1Min data, as main() and the backfill take them
Universe == SymbolSet(bars, "1Min")

\* C19: the freshness of a timeframe is the minimum over all universe symbols
\* of the symbol's latest stored timestamp; a universe symbol with no bar of
\* the timeframe is not ignored, so no freshness is reported while one is
\* missing.
C19_FreshnessOverUniverse ==
    \A tf \in TFs :
        IF Universe = {} \/ \E s \in Universe : ~HasBar(s, tf)
        THEN get_timeframe_freshness(bars, tf) = None
        ELSE get_timeframe_freshness(bars, tf)
                = Some(SetMin({LatestOf(bars, tf, s) : s \in Universe}))


\* the position of loop thread t, "absent" before it is created
ThreadPc(t) == IF t \in ThreadIds THEN threads[t].pc ELSE "absent"

\* after a stop of the given kinds (and no later start), a cycle that begins
\* does not go on to its spawn: the loop test ends the thread
NoCycleAfterStop(kinds) ==
    \A t \in ThreadIds :
        (hist.stopped \in kinds /\ threads[t].pc = "top")
            => threads'[t].pc \in {"top", "dead"}

\* stop_realtime_ingest leaves the child processes alone
StopLeavesChildren == (rt_stop' /\ ~rt_stop) => procs' = procs

C21_CycleFailureKeepsLoop ==
    [][\A t \in ThreadIds :
         /\ (threads'[t].pc = "dead" /\ threads[t].pc # "dead")
               => (threads[t].pc = "top" /\ rt_stop)
         /\ (threads[t].pc \in {"check", "spawn"} /\ threads'[t] # threads[t])
               => threads'[t].pc \in {"spawn", "sleep"}
         /\ (threads[t].pc = "sleep" /\ threads'[t] # threads[t])
               => threads'[t].pc = "top"
         /\ (threads[t].pc = "top" /\ threads'[t] # threads[t] /\ ~rt_stop)
               => threads'[t].pc = "check"]_vars

\* C21 witness: a thread whose last cycle failed is in its next cycle, about
\* to spawn.
C21_Witness ==
    \E t \in ThreadIds : threads[t].pc = "spawn" /\ threads[t].last = "failed"


\* C22: a start_ingest request with mode catchup that is answered 202 has
\* appended one catch-up child in that step, whatever the ledger showed.
C22_OnDemandAlwaysSpawns ==
    [][(/\ call' # call
        /\ call'.op = "start_ingest"
        /\ call'.mode = "catchup"
        /\ call'.ret = 202)
          => /\ Len(procs') = Len(procs) + 1
             /\ procs'[Len(procs')].script = "catchup"
             /\ procs'[Len(procs')].origin = "ondemand"
             /\ procs'[Len(procs')].pc = "start"]_vars

\* C22 witness: an on-demand catch-up was spawned while the ledger showed a
\* running catch-up of a requested timeframe.
C22_Witness ==
    /\ call.op = "start_ingest"
    /\ call.mode = "catchup"
    /\ call.dup
    /\ call.ret = 202
    /\ Len(procs) = 2
    /\ procs[2].origin = "ondemand"
    /\ procs[2].script = "catchup"
    /\ \E i \in DOMAIN ingest_runs :
          /\ ingest_runs[i].status = "running"
          /\ ingest_runs[i].mode = "catchup"
          /\ ingest_runs[i].timeframe \in Range(procs[2].tfs)


Keys(store) == {KeyOf(b) : b \in store}

\* the store had the two batches been committed in the other order
OtherOrder ==
    insert_bars_batch(insert_bars_batch(call.before, call.second, TRUE).store,
                      call.first, TRUE).store

\* C23: after two simultaneous runs committed their batches, the stored keys
\* are those the other commit order gives, and every row held after the
\* earlier commit (stored before or by the earlier batch) is still held
\* unchanged.
C23_InsertsCommute ==
    call.op = "two_runs" =>
        /\ Keys(bars) = Keys(OtherOrder)
        /\ Keys(bars) = Keys(call.before) \cup {KeyOf(r) : r \in Range(call.rows)}
        /\ call.before \subseteq call.mid
        /\ call.mid \subseteq bars

\* C23 witness: the two batches carry the same new key with different values;
\* the earlier batch's value is the one stored.
C23_Witness ==
    /\ call.op = "two_runs"
    /\ Len(call.first) = 1
    /\ Len(call.second) = 1
    /\ SameKey(call.first[1], call.second[1])
    /\ call.first[1] # call.second[1]
    /\ ~\E b \in call.before : SameKey(b, call.first[1])
    /\ call.first[1] \in bars
    /\ call.second[1] \notin bars
    /\ call.ret = 1


\* C24: while no symbol has a 1Min bar, no process has gone past its universe
\* check: none holds a window or has issued a request, and the ledger is empty.
C24_EmptyUniverseShortCircuit ==
    Universe = {} =>
        /\ ingest_runs = <<>>
        /\ \A p \in ProcIds :
              /\ procs[p].pc \in {"start", "done"}
              /\ procs[p].symbols = <<>>
              /\ procs[p].start = 0 /\ procs[p].end = 0
              /\ procs[p].run_id = 0
              /\ procs[p].requested = {}

\* C24 witness: on an empty store a catch-up and a backfill have both returned.
C24_Witness ==
    /\ Universe = {}
    /\ \E p, q \in ProcIds :
          /\ procs[p].script = "catchup" /\ procs[p].pc = "done"
          /\ procs[q].script = "backfill" /\ procs[q].pc = "done"


\* C25: a catch-up process about to issue a request after an earlier request
\* of the same run has paused since that earlier request.
C25_PauseBetweenRequests ==
    \A p \in ProcIds :
        (/\ procs[p].script = "catchup"
         /\ procs[p].pc = "fetch"
         /\ procs[p].requested # {})
            => procs[p].paused

RECURSIVE Concat(_)
Concat(seqs) == IF seqs = <<>> THEN <<>> ELSE Head(seqs) \o Concat(Tail(seqs))

\* the groups whose request the process has issued, in the order issued
RequestedGroups(p) ==
    [i \in DOMAIN procs[p].reqlog |->
        chunked(procs[p].symbols, procs[p].chunk)[procs[p].reqlog[i]]]

\* C26: the groups of a run are non-empty slices of at most chunk symbols
\* whose concatenation is the symbol list; the groups requested so far are the
\* first ones in list order, each once, and at the final update every symbol
\* has been requested in exactly one group.
C26_ChunkedPartition ==
    \A p \in ProcIds :
        procs[p].symbols # <<>> =>
            LET groups == chunked(procs[p].symbols, procs[p].chunk)
            IN /\ Concat(groups) = procs[p].symbols
               /\ \A k \in DOMAIN groups :
                     Len(groups[k]) >= 1 /\ Len(groups[k]) <= procs[p].chunk
               /\ procs[p].reqlog = [i \in DOMAIN procs[p].reqlog |-> i]
               /\ Len(procs[p].reqlog) <= Len(groups)
               /\ Concat(RequestedGroups(p))
                     = SubSeq(procs[p].symbols, 1, Len(Concat(RequestedGroups(p))))
               /\ procs[p].pc \in {"finish", "done"} =>
                     \A s \in Range(procs[p].symbols) :
                        Cardinality({i \in DOMAIN procs[p].reqlog :
                                        s \in Range(RequestedGroups(p)[i])}) = 1

\* C26 witness: four symbols in chunks of three were requested as a full
\* group and a trailing group of one.
C26_Witness ==
    \E p \in ProcIds :
        /\ procs[p].pc = "done"
        /\ Len(procs[p].symbols) = 4
        /\ procs[p].chunk = 3
        /\ RequestedGroups(p) = <<<<1, 2, 3>>, <<4>>>>

\* C27: once concurrent calls of start_realtime_ingest on a stopped scheduler
\* have all returned, exactly one loop thread is active.
C27_ConcurrentStartOneLoop ==
    (/\ \A c \in Callers : starters[c] = "idle"
     /\ hist.starts_in_row >= 1)
        => Cardinality(AliveThreads) = 1


\* C28: once a start_realtime_ingest issued after a stop has returned, and no
\* stop request came later, a loop thread is active.
C28_StartAfterStopRuns ==
    (/\ \A c \in Callers : starters[c] = "idle"
     /\ hist.stopped = "no"
     /\ hist.starts_in_row >= 1)
        => AliveThreads # {}


\* C29: while the scheduler stays running, the ledger never ends up making
\* every future cycle skip: again and again no 1Min catch-up row is in status
\* running, so that the cycle's guard lets a launch through.
C29_GuardReopens == []<>(~RealtimeGuard(ingest_runs))


\* sum of inserted_rows over the rows of the ledger
RECURSIVE SumInsertedRows(_)
SumInsertedRows(runs) ==
    IF runs = <<>> THEN 0
    ELSE Head(runs).inserted_rows + SumInsertedRows(Tail(runs))

\* rows a batch insert has added that its process has not yet reported to the
\* ledger (it is between insert_bars_batch and update_ingest_run)
RECURSIVE SumPending(_)
SumPending(prs) ==
    IF prs = <<>> THEN 0
    ELSE (IF Head(prs).pc = "update" THEN Head(prs).inserted ELSE 0)
         + SumPending(Tail(prs))

\* the bars the runs have added to the store they started from
AddedBars == bars \ SeededStore

\* no process is executing and no row is in status running
AllRunsFinished ==
    /\ \A p \in ProcIds : procs[p].pc = "done"
    /\ \A i \in DOMAIN ingest_runs : ingest_runs[i].status = "finished"

====
